---- MODULE Spec2Model ----
(***************************************************************************)
(* WhatTheFee mempool recorder: the quarter-minute polling loop of         *)
(* Record::record, the full/delta decision on a height change, and the     *)
(* key-set difference of two mempool snapshots (src/src/record.rs).        *)
(*                                                                         *)
(* Abstractions, stated once:                                              *)
(*  - a Txid is a small natural; Txid::to_string is the injective tagging  *)
(*    TxidToString;                                                        *)
(*  - weights and fees stay far below 2^53, where `as f64` and             *)
(*    Amount::to_float_in(Satoshi) are exact, so a float column holds the  *)
(*    same number as the integer it was converted from;                    *)
(*  - HashMap iteration order is unspecified: every key order is tried;    *)
(*  - chrono::Utc::now() is the system wall clock, which the operator or   *)
(*    NTP may step backwards; the ghost `monotone` records whether that    *)
(*    has happened in the run.                                             *)
(***************************************************************************)
EXTENDS Integers, Sequences, FiniteSets

\* ---- bounds of the model
NumTxids == 3
NumLoopTxids == 2
MaxHeight == 2
MaxTicks == 4
StartTime == 59
MaxTime == 106

\* ---- program constants
\* record.rs:29  now.second() % 15
Cadence == 15
\* record.rs:20  let mut prev_height = 0u64;
InitialHeight == 0
\* record.rs:24  let mut prev_timestamp = 0i64;
InitialTimestamp == 0

\* ---- values
Txids == 1..NumTxids
Heights == 0..MaxHeight
Times == StartTime..MaxTime
\* no tick in progress: the loop-local `now` is out of scope
NoTime == -1

\* GetMempoolEntryResult, the three fields the recorder reads: weight
\* (Some, positive), fees.base in satoshi, time. Two sample entries that
\* differ in every field.
EntryA == [weight |-> 100, fee |-> 500, time |-> 1000]
EntryB == [weight |-> 50, fee |-> 200, time |-> 2000]
Entries == {EntryA, EntryB}

\* type Mempool = HashMap<Txid, GetMempoolEntryResult>
Mempools == UNION {[S -> Entries] : S \in SUBSET Txids}
EmptyMempool == [t \in {} |-> EntryA]

\* the snapshots the node serves to the recorder loop of the model
LoopTxids == 1..NumLoopTxids
LoopMempools == UNION {[S -> {EntryA}] : S \in SUBSET LoopTxids}

\* the orders in which HashMap::keys() may yield the keys of a map
KeyOrders(map) ==
    {s \in [1..Cardinality(DOMAIN map) -> DOMAIN map] :
        \A i, j \in DOMAIN s : i # j => s[i] # s[j]}

\* Txid::to_string(): the hex rendering, one string per txid
TxidToString(t) == <<"txid", t>>

Range(s) == {s[i] : i \in DOMAIN s}

VARIABLES
    pc,             \* position of the loop / of the pure-function harness
    clock,          \* the system wall clock, whole seconds
    monotone,       \* ghost: the clock has not stepped backwards so far
    chain_height,   \* the node's best-block height
    prev_height, this_height, is_new_height,
    prev_mempool, this_mempool,
    prev_timestamp, now,
    delta,          \* the DataFrame, a sequence of rows
    filename,       \* the PathBuf of the tick in progress
    files,          \* ghost: log of File::create calls, oldest first
    rest_calls,     \* ghost: number of RestClient calls issued
    last_snapshot,  \* ghost: mempool fetched by the last completed tick
    fired,          \* ghost: the timestamps of the ticks started, in order
    observed,       \* ghost: the quarter-minute timestamps a check has read
    snapshot_height,\* ghost: the node's height when get_mempool answered
    replay,         \* ghost: key sets rebuilt from the written tables
    failed          \* ghost: "none", or the kind of failure that occurred

vars == <<pc, clock, monotone, chain_height, prev_height, this_height,
          is_new_height, prev_mempool, this_mempool, prev_timestamp, now,
          delta, filename, files, rest_calls, last_snapshot, fired,
          observed, snapshot_height, replay, failed>>

\* nothing written yet: no run of tables has started with a `full` file
NoReplay == [started |-> FALSE, all |-> {}, run |-> {}]

NoFile == [day |-> 0, height |-> 0, timestamp |-> NoTime, suffix |-> "none"]

\* ------------------------------------------------------------------------
\* Delta engine

\* mutant: a key counts as kept only when its entry is unchanged
DeltaOfKeys_ValueSensitive(map1, map2, keys1, keys2) ==
    LET Kept(k) == k \in DOMAIN map1 /\ k \in DOMAIN map2 /\ map1[k] = map2[k]
        keys_removed == SelectSeq(keys1, LAMBDA k : ~Kept(k))
        keys_added   == SelectSeq(keys2, LAMBDA k : ~Kept(k))
    IN  <<keys_removed, keys_added>>

\* mutant: the intersection set is never filled
DeltaOfKeys_NoIntersection(map1, map2, keys1, keys2) ==
    LET intersection == {}
        keys_removed == SelectSeq(keys1, LAMBDA k : k \notin DOMAIN map2)
        keys_added   == SelectSeq(keys2, LAMBDA k : k \notin intersection)
    IN  <<keys_removed, keys_added>>

\* mutant: the two lists are returned in the wrong order
DeltaOfKeys_Swapped(map1, map2, keys1, keys2) ==
    LET intersection == {k \in Range(keys1) : k \in DOMAIN map2}
        keys_removed == SelectSeq(keys1, LAMBDA k : k \notin DOMAIN map2)
        keys_added   == SelectSeq(keys2, LAMBDA k : k \notin intersection)
    IN  <<keys_added, keys_removed>>

\* mutant: the first loop never reports a removed key
DeltaOfKeys_NoRemoved(map1, map2, keys1, keys2) ==
    LET intersection == {k \in Range(keys1) : k \in DOMAIN map2}
        keys_added   == SelectSeq(keys2, LAMBDA k : k \notin intersection)
    IN  <<(<<>>), keys_added>>

\* Record::delta_of_keys; keys1, keys2 are the iteration orders of the maps
DeltaOfKeys(map1, map2, keys1, keys2) ==
    LET intersection == {k \in Range(keys1) : k \in DOMAIN map2}
        keys_removed == SelectSeq(keys1, LAMBDA k : k \notin DOMAIN map2)
        keys_added   == SelectSeq(keys2, LAMBDA k : k \notin intersection)
    IN  <<keys_removed, keys_added>>

\* mutant: the removed weight is not negated
RemovedRow_Unsigned(prev, txid) ==
    [txid          |-> TxidToString(txid),
     weight        |-> prev[txid].weight,
     fee_sat       |-> prev[txid].fee,
     first_seen_at |-> prev[txid].time]

\* first loop body of create_delta_from_pools
RemovedRow(prev, txid) ==
    [txid          |-> TxidToString(txid),
     weight        |-> prev[txid].weight * (-1),
     fee_sat       |-> prev[txid].fee,
     first_seen_at |-> prev[txid].time]

\* mutant: the added weight is negated like a removed one
AddedRow_Negated(this, txid) ==
    [txid          |-> TxidToString(txid),
     weight        |-> this[txid].weight * (-1),
     fee_sat       |-> this[txid].fee,
     first_seen_at |-> this[txid].time]

\* second loop body of create_delta_from_pools
AddedRow(this, txid) ==
    [txid          |-> TxidToString(txid),
     weight        |-> this[txid].weight,
     fee_sat       |-> this[txid].fee,
     first_seen_at |-> this[txid].time]

\* prev_mempool.get(txid) and this_mempool.get(txid) of the two loops: Some
\* for a key of the map, None otherwise; `unwrap` panics on None
LookupsHit(prev, this, keys1, keys2) ==
    LET keys == DeltaOfKeys(prev, this, keys1, keys2)
    IN  /\ \A i \in DOMAIN keys[1] : keys[1][i] \in DOMAIN prev
        /\ \A i \in DOMAIN keys[2] : keys[2][i] \in DOMAIN this

\* mutant: the added rows are emitted before the removed rows
CreateDeltaFromPools_AddedFirst(prev, this, keys1, keys2) ==
    LET keys         == DeltaOfKeys(prev, this, keys1, keys2)
        keys_removed == keys[1]
        keys_added   == keys[2]
    IN  [i \in 1..Len(keys_added) |-> AddedRow(this, keys_added[i])]
        \o [i \in 1..Len(keys_removed) |-> RemovedRow(prev, keys_removed[i])]

\* Record::create_delta_from_pools
CreateDeltaFromPools(prev, this, keys1, keys2) ==
    LET keys         == DeltaOfKeys(prev, this, keys1, keys2)
        keys_removed == keys[1]
        keys_added   == keys[2]
    IN  [i \in 1..Len(keys_removed) |-> RemovedRow(prev, keys_removed[i])]
        \o [i \in 1..Len(keys_added) |-> AddedRow(this, keys_added[i])]

\* ------------------------------------------------------------------------
\* Scheduler guard and file naming

\* chrono Timelike::second() of a UTC time: seconds within the minute
Second(t) == t % 60

\* mutant: the guard forgets the timestamp of the last tick
ShouldTick_NoDedup(t, prev_ts) == Second(t) % Cadence = 0

\* mutant: the two halves of the `continue` condition are joined by &&
ShouldTick_BothHalves(t, prev_ts) == ~(Second(t) % Cadence # 0 /\ prev_ts = t)

\* the negation of the `continue` condition at record.rs:29
ShouldTick(t, prev_ts) == ~(Second(t) % Cadence # 0 \/ prev_ts = t)

\* record.rs:36
IsNewHeight(prev_h, this_h) == prev_h # this_h

\* mutant: the previous snapshot survives a height change
BaselineFor_Keep(new_height, prev) == prev

\* record.rs:37-38: a new height discards the previous snapshot
BaselineFor(new_height, prev) == IF new_height THEN EmptyMempool ELSE prev

\* record.rs:57
Suffix(new_height) == IF new_height THEN "full" ELSE "delta"

\* now.format("%Y/%m/%d"): the calendar day, as days since the epoch
Day(t) == t \div 86400

\* mutant: the file name leaves the tick timestamp out
Filename_NoTimestamp(t, height, new_height) ==
    [day |-> Day(t), height |-> height, timestamp |-> 0,
     suffix |-> Suffix(new_height)]

\* record.rs:54-60: data/<Y>/<m>/<d>/<height>_<timestamp>_<suffix>.parquet
Filename(t, height, new_height) ==
    [day |-> Day(t), height |-> height, timestamp |-> t,
     suffix |-> Suffix(new_height)]

\* ------------------------------------------------------------------------
\* The recorder loop

Init ==
    /\ pc = "check"
    /\ clock = StartTime
    /\ monotone = TRUE
    /\ chain_height \in Heights
    /\ prev_height = InitialHeight
    /\ this_height = 0
    /\ is_new_height = FALSE
    /\ prev_mempool = EmptyMempool
    /\ this_mempool = EmptyMempool
    /\ prev_timestamp = InitialTimestamp
    /\ now = NoTime
    /\ delta = <<>>
    /\ filename = NoFile
    /\ files = <<>>
    /\ rest_calls = 0
    /\ last_snapshot = EmptyMempool
    /\ fired = <<>>
    /\ observed = {}
    /\ snapshot_height = 0
    /\ replay = NoReplay
    /\ failed = "none"

\* mutant: a refused check also stores the time it read
Check_StampsEveryCheck ==
    /\ pc = "check"
    /\ Len(fired) < MaxTicks
    /\ IF ShouldTick(clock, prev_timestamp)
       THEN /\ pc' = "get_chain_info"
            /\ now' = clock
            /\ fired' = Append(fired, clock)
            /\ prev_timestamp' = prev_timestamp
       ELSE /\ pc' = "sleep"
            /\ now' = NoTime
            /\ fired' = fired
            /\ prev_timestamp' = clock
    /\ observed' = IF Second(clock) % Cadence = 0
                    THEN observed \cup {clock} ELSE observed
    /\ UNCHANGED <<clock, monotone, chain_height, prev_height, this_height,
                   is_new_height, prev_mempool, this_mempool,
                   delta, filename, files, rest_calls, last_snapshot,
                   snapshot_height, replay, failed>>

\* record.rs:28-32: read the clock; sleep 50 ms and retry, or start a tick
Check ==
    /\ pc = "check"
    /\ Len(fired) < MaxTicks
    /\ IF ShouldTick(clock, prev_timestamp)
       THEN /\ pc' = "get_chain_info"
            /\ now' = clock
            /\ fired' = Append(fired, clock)
       ELSE /\ pc' = "sleep"
            /\ now' = NoTime
            /\ fired' = fired
    /\ observed' = IF Second(clock) % Cadence = 0
                    THEN observed \cup {clock} ELSE observed
    /\ UNCHANGED <<clock, monotone, chain_height, prev_height, this_height,
                   is_new_height, prev_mempool, this_mempool, prev_timestamp,
                   delta, filename, files, rest_calls, last_snapshot,
                   snapshot_height, replay, failed>>

\* record.rs:30-31: the sleep returns and the loop continues
Wake ==
    /\ pc = "sleep"
    /\ pc' = "check"
    /\ UNCHANGED <<clock, monotone, chain_height, prev_height, this_height,
                   is_new_height, prev_mempool, this_mempool, prev_timestamp,
                   now, delta, filename, files, rest_calls, last_snapshot,
                   fired, observed, snapshot_height, replay, failed>>

\* mutant: a failed REST call is skipped and the loop carries on
FetchError_Continue ==
    /\ pc' = "sleep"
    /\ failed' = "fetch"

\* the `?` on a failed REST call: record() returns Err
FetchError ==
    /\ pc' = "err"
    /\ failed' = "fetch"

\* record.rs:35-40
GetChainInfo ==
    /\ pc = "get_chain_info"
    /\ rest_calls' = rest_calls + 1
    /\ \/ /\ this_height' = chain_height
          /\ is_new_height' = IsNewHeight(prev_height, this_height')
          /\ prev_mempool' = BaselineFor(is_new_height', prev_mempool)
          /\ pc' = "get_mempool"
          /\ UNCHANGED failed
       \/ /\ FetchError
          /\ UNCHANGED <<this_height, is_new_height, prev_mempool>>
    /\ UNCHANGED <<clock, monotone, chain_height, prev_height, this_mempool,
                   prev_timestamp, now, delta, filename, files,
                   last_snapshot, fired, observed, snapshot_height, replay>>

\* record.rs:43-60
GetMempool(pools) ==
    /\ pc = "get_mempool"
    /\ rest_calls' = rest_calls + 1
    /\ \/ \E m \in pools :
            \E keys1 \in KeyOrders(prev_mempool), keys2 \in KeyOrders(m) :
              /\ this_mempool' = m
              /\ delta' = CreateDeltaFromPools(prev_mempool, m, keys1, keys2)
              /\ filename' = Filename(now, this_height, is_new_height)
              /\ snapshot_height' = chain_height
              /\ pc' = "save"
              /\ UNCHANGED failed
       \/ /\ FetchError
          /\ UNCHANGED <<this_mempool, delta, filename, snapshot_height>>
    /\ UNCHANGED <<clock, monotone, chain_height, prev_height, this_height,
                   is_new_height, prev_mempool, prev_timestamp, now, files,
                   last_snapshot, fired, observed, replay>>

\* ghost bookkeeping of a reader of the written files: a table is applied to
\* a key set by deleting the txids of its removed rows and inserting those of
\* its added rows. `all` applies every table since the first `full` file,
\* `run` starts again from the empty set at each `full` file.
ApplyTable(keys, table) ==
    (keys \ {table[i].txid : i \in {j \in DOMAIN table : table[j].weight < 0}})
        \cup {table[i].txid : i \in {j \in DOMAIN table : table[j].weight > 0}}

Replayed(r, suffix, table) ==
    [started |-> r.started \/ suffix = "full",
     all     |-> IF r.started \/ suffix = "full"
                 THEN ApplyTable(r.all, table) ELSE {},
     run     |-> IF suffix = "full" THEN ApplyTable({}, table)
                                    ELSE ApplyTable(r.run, table)]

\* mutant: the rotation stores the time at which the tick finished
Rotate_FinishTime ==
    /\ prev_height' = this_height
    /\ prev_mempool' = this_mempool
    /\ prev_timestamp' = clock

\* mutant: the rotation forgets the tick timestamp
Rotate_NoTimestamp ==
    /\ prev_height' = this_height
    /\ prev_mempool' = this_mempool
    /\ prev_timestamp' = prev_timestamp

\* record.rs:63-65
Rotate ==
    /\ prev_height' = this_height
    /\ prev_mempool' = this_mempool
    /\ prev_timestamp' = now

\* an unwrap() in save_dataframe_delta_to_parquet panics
WriterPanic ==
    /\ pc' = "panic"
    /\ failed' = "write"

\* mutant: the write is handed to a detached task and the loop rotates and
\* goes on without waiting for it
Save_Detached ==
    /\ pc = "save"
    /\ prev_height' = this_height
    /\ prev_mempool' = this_mempool
    /\ prev_timestamp' = now
    /\ last_snapshot' = this_mempool
    /\ pc' = "check"
    /\ this_height' = 0
    /\ is_new_height' = FALSE
    /\ this_mempool' = EmptyMempool
    /\ now' = NoTime
    /\ delta' = <<>>
    /\ filename' = NoFile
    /\ snapshot_height' = 0
    /\ UNCHANGED <<files, replay, failed, clock, monotone, chain_height,
                   rest_calls, fired, observed>>

\* record.rs:61-65 with save_dataframe_delta_to_parquet (69-79):
\* create_dir_all, File::create, ParquetWriter::finish, then the rotation.
\* After the rotation the loop-locals of the iteration are dead (each is
\* assigned again before it is read) and are put back to their defaults.
Save ==
    /\ pc = "save"
    /\ \/ /\ files' = Append(files, [path |-> filename, complete |-> TRUE])
          /\ Rotate
          /\ last_snapshot' = this_mempool
          /\ pc' = "check"
          /\ this_height' = 0
          /\ is_new_height' = FALSE
          /\ this_mempool' = EmptyMempool
          /\ now' = NoTime
          /\ delta' = <<>>
          /\ filename' = NoFile
          /\ snapshot_height' = 0
          /\ replay' = Replayed(replay, filename.suffix, delta)
          /\ UNCHANGED failed
       \/ \* create_dir_all or File::create fails: nothing is created
          /\ WriterPanic
          /\ UNCHANGED <<files, prev_height, prev_mempool, prev_timestamp,
                         last_snapshot, this_height, is_new_height,
                         this_mempool, now, delta, filename,
                         snapshot_height, replay>>
       \/ \* finish fails after File::create: the file exists, incomplete
          /\ WriterPanic
          /\ files' = Append(files, [path |-> filename, complete |-> FALSE])
          /\ UNCHANGED <<prev_height, prev_mempool, prev_timestamp,
                         last_snapshot, this_height, is_new_height,
                         this_mempool, now, delta, filename,
                         snapshot_height, replay>>
    /\ UNCHANGED <<clock, monotone, chain_height, rest_calls, fired,
                   observed>>

\* ---- environment

\* points where the task is suspended and wall time passes. The clock is
\* read at record.rs:28 only, so one suspension point inside the tick body
\* (the mempool call, which may take seconds) stands for all of them.
Suspended == pc \in {"sleep", "get_mempool"}

ClockForward(times) ==
    /\ Suspended
    /\ \E t \in times : t > clock /\ clock' = t
    /\ UNCHANGED <<pc, monotone, chain_height, prev_height, this_height,
                   is_new_height, prev_mempool, this_mempool, prev_timestamp,
                   now, delta, filename, files, rest_calls, last_snapshot,
                   fired, observed, snapshot_height, replay, failed>>

ClockStepBack(times) ==
    /\ Suspended
    /\ \E t \in times : t < clock /\ clock' = t
    /\ monotone' = FALSE
    /\ UNCHANGED <<pc, chain_height, prev_height, this_height,
                   is_new_height, prev_mempool, this_mempool, prev_timestamp,
                   now, delta, filename, files, rest_calls, last_snapshot,
                   fired, observed, snapshot_height, replay, failed>>

\* the node connects a block
NewBlock ==
    /\ pc \in {"sleep", "get_chain_info", "get_mempool"}
    /\ chain_height < MaxHeight
    /\ chain_height' = chain_height + 1
    /\ UNCHANGED <<pc, clock, monotone, prev_height, this_height,
                   is_new_height, prev_mempool, this_mempool, prev_timestamp,
                   now, delta, filename, files, rest_calls, last_snapshot,
                   fired, observed, snapshot_height, replay, failed>>

\* ---- specifications
\* The loop is checked under two input profiles. Spec draws the node's
\* mempool from every snapshot over LoopTxids and lets the clock advance
\* through the quarter-minute instants (and the start instant); SpecClock
\* lets the clock take every second of Times, forwards and backwards,
\* against a node whose mempool stays empty, and SpecSynced is SpecClock for
\* a node that is past the genesis block.
\* SpecDelta applies create_delta_from_pools once to every pair of snapshots
\* over Txids, under every iteration order of the two maps.

QuarterTimes == {t \in Times : t = StartTime \/ Second(t) % Cadence = 0}
IdleMempools == {EmptyMempool}

Next ==
    \/ Check
    \/ Wake
    \/ GetChainInfo
    \/ GetMempool(LoopMempools)
    \/ Save
    \/ ClockForward(QuarterTimes)
    \/ NewBlock

Spec == Init /\ [][Next]_vars

NextClock ==
    \/ Check
    \/ Wake
    \/ GetChainInfo
    \/ GetMempool(IdleMempools)
    \/ Save
    \/ ClockForward(Times)
    \/ ClockStepBack(Times)
    \/ NewBlock

SpecClock == Init /\ [][NextClock]_vars

InitSynced == Init /\ chain_height > 0

SpecSynced == InitSynced /\ [][NextClock]_vars

InitDelta ==
    /\ pc = "delta_input"
    /\ prev_mempool \in Mempools
    /\ this_mempool \in Mempools
    /\ delta = <<>>
    /\ clock = StartTime
    /\ monotone = TRUE
    /\ chain_height = 0
    /\ prev_height = InitialHeight
    /\ this_height = 0
    /\ is_new_height = FALSE
    /\ prev_timestamp = InitialTimestamp
    /\ now = NoTime
    /\ filename = NoFile
    /\ files = <<>>
    /\ rest_calls = 0
    /\ last_snapshot = EmptyMempool
    /\ fired = <<>>
    /\ observed = {}
    /\ snapshot_height = 0
    /\ replay = NoReplay
    /\ failed = "none"

\* record.rs:46, applied to the drawn pair
ApplyDelta ==
    /\ pc = "delta_input"
    /\ \E keys1 \in KeyOrders(prev_mempool), keys2 \in KeyOrders(this_mempool) :
          IF LookupsHit(prev_mempool, this_mempool, keys1, keys2)
          THEN /\ delta' = CreateDeltaFromPools(prev_mempool, this_mempool,
                                                keys1, keys2)
               /\ pc' = "delta_done"
               /\ UNCHANGED failed
          ELSE \* record.rs:92, 102: `unwrap` on a missing entry
               /\ pc' = "panic"
               /\ failed' = "lookup"
               /\ UNCHANGED delta
    /\ UNCHANGED <<clock, monotone, chain_height, prev_height, this_height,
                   is_new_height, prev_mempool, this_mempool, prev_timestamp,
                   now, filename, files, rest_calls, last_snapshot, fired,
                   observed, snapshot_height, replay>>

NextDelta == ApplyDelta

SpecDelta == InitDelta /\ [][NextDelta]_vars

\* ------------------------------------------------------------------------
\* Properties of create_delta_from_pools (checked under SpecDelta)

KeysRemoved == DOMAIN prev_mempool \ DOMAIN this_mempool
KeysAdded == DOMAIN this_mempool \ DOMAIN prev_mempool
KeysKept == DOMAIN prev_mempool \cap DOMAIN this_mempool
RowsOf(txid) == {i \in DOMAIN delta : delta[i].txid = TxidToString(txid)}

\* C1: the txid column of the delta is exactly the removed keys together
\* with the added keys, one row each (row count = |removed| + |added|), and
\* a txid present in both snapshots has no row, whether or not its entry
\* differs between the two.
C1_SymmetricDifference ==
    pc = "delta_done" =>
        /\ {delta[i].txid : i \in DOMAIN delta}
            = {TxidToString(k) : k \in KeysRemoved \cup KeysAdded}
        /\ Len(delta) = Cardinality(KeysRemoved) + Cardinality(KeysAdded)
        /\ \A k \in KeysKept : RowsOf(k) = {}

\* a txid is in both snapshots with a different weight and fee, and the
\* delta also has a removed and an added row
C1_Witness ==
    /\ pc = "delta_done"
    /\ \E k \in KeysKept :
          /\ prev_mempool[k].weight # this_mempool[k].weight
          /\ prev_mempool[k].fee # this_mempool[k].fee
    /\ KeysRemoved # {}
    /\ KeysAdded # {}
    /\ Len(delta) = 2

\* C8: every row of a txid only in prev carries minus the previous weight
\* and the previous fee and first-seen time; every row of a txid only in
\* curr carries plus the current weight and the current fee and first-seen
\* time.
C8_RowValues ==
    pc = "delta_done" =>
        /\ \A k \in KeysRemoved :
              /\ RowsOf(k) # {}
              /\ \A i \in RowsOf(k) :
                    /\ delta[i].weight = 0 - prev_mempool[k].weight
                    /\ delta[i].fee_sat = prev_mempool[k].fee
                    /\ delta[i].first_seen_at = prev_mempool[k].time
        /\ \A k \in KeysAdded :
              /\ RowsOf(k) # {}
              /\ \A i \in RowsOf(k) :
                    /\ delta[i].weight = this_mempool[k].weight
                    /\ delta[i].fee_sat = this_mempool[k].fee
                    /\ delta[i].first_seen_at = this_mempool[k].time

\* removed and added rows with different entries behind them
C8_Witness ==
    /\ pc = "delta_done"
    /\ \E r \in KeysRemoved, a \in KeysAdded :
          prev_mempool[r] # this_mempool[a]
    /\ \E i \in DOMAIN delta : delta[i].weight < 0
    /\ \E i \in DOMAIN delta : delta[i].weight > 0

\* C9: the delta of a snapshot against itself has zero rows.
C9_SelfDeltaEmpty ==
    (pc = "delta_done" /\ prev_mempool = this_mempool) => Len(delta) = 0

\* a non-empty snapshot compared with itself
C9_Witness ==
    /\ pc = "delta_done"
    /\ prev_mempool = this_mempool
    /\ Cardinality(DOMAIN this_mempool) = NumTxids
    /\ delta = <<>>

\* C10: the delta of a snapshot s against the empty snapshot has exactly |s|
\* rows, one per txid of s, each with positive weight equal to the entry's
\* weight and first_seen taken from s; no row has a negative weight.
C10_FullSnapshot ==
    (pc = "delta_done" /\ prev_mempool = EmptyMempool) =>
        /\ Len(delta) = Cardinality(DOMAIN this_mempool)
        /\ \A k \in DOMAIN this_mempool :
              /\ Cardinality(RowsOf(k)) = 1
              /\ \A i \in RowsOf(k) :
                    /\ delta[i].weight = this_mempool[k].weight
                    /\ delta[i].weight > 0
                    /\ delta[i].first_seen_at = this_mempool[k].time
        /\ \A i \in DOMAIN delta : ~(delta[i].weight < 0)

\* a full snapshot of several entries of different weight
C10_Witness ==
    /\ pc = "delta_done"
    /\ prev_mempool = EmptyMempool
    /\ Len(delta) = NumTxids
    /\ \E i, j \in DOMAIN delta : delta[i].weight # delta[j].weight

\* C11: the delta computation is total: every txid reported as removed is a
\* key of the previous snapshot and every txid reported as added is a key of
\* the current one, so no entry lookup misses and the lookup panic is never
\* reached, whatever the two snapshots and their iteration orders are.
C11_LookupsNeverMiss ==
    /\ failed # "lookup"
    /\ pc # "panic"
    /\ pc = "delta_done" =>
          \A i \in DOMAIN delta :
              /\ delta[i].weight < 0 =>
                    \E k \in DOMAIN prev_mempool :
                        delta[i].txid = TxidToString(k)
              /\ delta[i].weight > 0 =>
                    \E k \in DOMAIN this_mempool :
                        delta[i].txid = TxidToString(k)

\* both loops looked entries up, next to a key that needed no lookup
C11_Witness ==
    /\ pc = "delta_done"
    /\ failed = "none"
    /\ KeysRemoved # {}
    /\ KeysAdded # {}
    /\ KeysKept # {}
    /\ Len(delta) = Cardinality(KeysRemoved) + Cardinality(KeysAdded)

\* C13: in every returned table all removed rows (negative weight) come
\* before all added rows (positive weight).
C13_RemovedBeforeAdded ==
    pc = "delta_done" =>
        \A i, j \in DOMAIN delta :
            (delta[i].weight < 0 /\ delta[j].weight > 0) => i < j

\* a table with several removed rows followed by an added row
C13_Witness ==
    /\ pc = "delta_done"
    /\ Cardinality(KeysRemoved) = NumTxids - 1
    /\ Cardinality(KeysAdded) = 1
    /\ delta[1].weight < 0
    /\ delta[Len(delta)].weight > 0

\* ------------------------------------------------------------------------
\* Properties of the recorder loop

\* C2: on a tick whose fetched height differs from prev_height the previous
\* snapshot has been reset to empty before the delta is computed, so the
\* table to be written lists every entry of the current mempool as an added
\* row and no removed row, and the file name suffix is `full`.
C2_RolloverIsFull ==
    (pc = "save" /\ this_height # prev_height) =>
        /\ prev_mempool = EmptyMempool
        /\ filename.suffix = "full"
        /\ Len(delta) = Cardinality(DOMAIN this_mempool)
        /\ \A k \in DOMAIN this_mempool :
              \E i \in RowsOf(k) : delta[i].weight = this_mempool[k].weight
        /\ \A i \in DOMAIN delta : delta[i].weight > 0

\* a rollover tick whose mempool is the one the previous tick fetched
C2_Witness ==
    /\ pc = "save"
    /\ this_height # prev_height
    /\ Len(files) >= 1
    /\ this_mempool = last_snapshot
    /\ Cardinality(DOMAIN this_mempool) = NumLoopTxids

\* C3: on a tick whose fetched height equals prev_height the suffix is
\* `delta` and the table is the delta of the current mempool against the
\* snapshot fetched by the immediately preceding completed tick (there is
\* such a tick, and the baseline is neither older nor the empty reset).
C3_DeltaAgainstPrecedingTick ==
    (pc = "save" /\ this_height = prev_height) =>
        /\ filename.suffix = "delta"
        /\ Len(files) >= 1
        /\ prev_mempool = last_snapshot
        /\ {delta[i].txid : i \in DOMAIN delta}
            = {TxidToString(k) :
                 k \in (DOMAIN last_snapshot \ DOMAIN this_mempool)
                       \cup (DOMAIN this_mempool \ DOMAIN last_snapshot)}

\* the second of the last tick started before the guard is evaluated
LastFiredSecond == IF fired = <<>> THEN NoTime ELSE fired[Len(fired)]

\* C4: the guard lets the tick body run if and only if the second within
\* the minute is one of 0, 15, 30, 45 and the whole-second timestamp differs
\* from the one of the last fired tick.
C4_SchedulerGuard ==
    [][(pc = "check" /\ pc' # "check") =>
          ((pc' = "get_chain_info")
             <=> (/\ Second(clock) \in {0, 15, 30, 45}
                  /\ clock # LastFiredSecond))]_vars

\* the guard has just refused a second check within the second of the
\* last tick, at :45, with the clock never stepped back
C4_Witness ==
    /\ pc = "sleep"
    /\ monotone
    /\ fired # <<>>
    /\ clock = prev_timestamp
    /\ Second(clock) = 45

\* C5: with a non-decreasing wall clock no two executed ticks have the same
\* whole-second tick timestamp.
C5_AtMostOncePerBoundary ==
    monotone =>
        \A i, j \in DOMAIN fired : i < j => fired[i] # fired[j]

\* back at the guard within the second of a tick that started and finished
\* in that second, after an earlier tick
C5_Witness ==
    /\ pc = "sleep"
    /\ monotone
    /\ Len(fired) >= 2
    /\ Len(files) = Len(fired)
    /\ clock = fired[Len(fired)]

\* C6 as stated: the paths of the files created in one run are pairwise
\* different.
C6_DistinctPaths ==
    \A i, j \in DOMAIN files : i < j => files[i].path # files[j].path

\* C6, amended: with a non-decreasing wall clock the paths of the files
\* created in one run are pairwise different.
C6_DistinctPathsMonotone ==
    monotone => C6_DistinctPaths

\* three files of one run, two of them differing in the timestamp alone
C6_Witness ==
    /\ monotone
    /\ Len(files) >= 3
    /\ \E i, j \in DOMAIN files :
          /\ i < j
          /\ files[i].path.height = files[j].path.height
          /\ files[i].path.suffix = files[j].path.suffix
          /\ files[i].path.timestamp # files[j].path.timestamp

CompleteFiles == {i \in DOMAIN files : files[i].complete}

C12_RotationKeepsTickValues ==
    [][(pc = "save" /\ pc' = "check") =>
          /\ Len(files') = Len(files) + 1
          /\ prev_height' = this_height
          /\ prev_height' = files'[Len(files')].path.height
          /\ prev_mempool' = this_mempool
          /\ prev_timestamp' = now
          /\ prev_timestamp' = fired[Len(fired)]
          /\ prev_timestamp' = files'[Len(files')].path.timestamp]_vars

\* a tick rotated, and the next one is about to finish at a later second
\* than the one it started in
C12_Witness ==
    /\ pc = "save"
    /\ Len(files) >= 1
    /\ clock > now
    /\ prev_timestamp = fired[Len(fired) - 1]
    /\ prev_height = files[Len(files)].path.height
    /\ prev_mempool = last_snapshot
    /\ prev_mempool # EmptyMempool

\* C14 as stated: the number of ticks started never exceeds the number of
\* distinct quarter-minute timestamps that a clock check has read.
C14_TicksWithinObserved == Len(fired) <= Cardinality(observed)

\* C14, amended: a check that reads a quarter-minute second later than the
\* last fired one starts exactly one tick, however many boundaries were
\* skipped; and while the wall clock has not stepped backwards the number of
\* ticks started never exceeds the number of distinct quarter-minute
\* timestamps read by a check.
C14_OneTickPerObservedBoundary ==
    /\ [][(pc = "check" /\ Second(clock) % Cadence = 0
                        /\ clock > LastFiredSecond /\ pc' # pc) =>
              /\ pc' = "get_chain_info"
              /\ fired' = Append(fired, clock)]_vars
    /\ [](monotone => Len(fired) <= Cardinality(observed))

\* the loop stalled past at least one boundary and then fired once
C14_Witness ==
    /\ monotone
    /\ pc = "get_chain_info"
    /\ Len(fired) >= 2
    /\ fired[Len(fired)] - fired[Len(fired) - 1] > Cadence
    /\ Len(fired) = Cardinality(observed)

\* C15: ticks never overlap. Within a tick the height fetch, the mempool
\* fetch, the delta computation, the write and the rotation happen in this
\* order, a tick's height fetch comes after the write and rotation of the
\* tick before it, and prev_height and prev_mempool change only in a step of
\* the tick in progress.
C15_TicksDoNotOverlap ==
    /\ [](/\ pc = "get_chain_info" =>
                /\ rest_calls = 2 * (Len(fired) - 1)
                /\ Len(files) = Len(fired) - 1
                /\ Len(fired) > 1 => prev_timestamp = fired[Len(fired) - 1]
                /\ delta = <<>> /\ filename = NoFile
          /\ pc = "get_mempool" =>
                /\ rest_calls = 2 * Len(fired) - 1
                /\ Len(files) = Len(fired) - 1
                /\ delta = <<>> /\ filename = NoFile
          /\ pc = "save" =>
                /\ rest_calls = 2 * Len(fired)
                /\ Len(files) = Len(fired) - 1
                /\ filename # NoFile
                /\ filename.timestamp = fired[Len(fired)]
          /\ pc \in {"check", "sleep"} =>
                /\ rest_calls = 2 * Len(fired)
                /\ Len(files) = Len(fired)
                /\ fired # <<>> => prev_timestamp = fired[Len(fired)])
    /\ [][(prev_height' # prev_height \/ prev_mempool' # prev_mempool) =>
              /\ pc \in {"get_chain_info", "save"}
              /\ Len(fired) = Len(files) + 1]_vars

\* a later tick starts its height fetch after the files of the earlier ones
C15_Witness ==
    /\ pc = "get_chain_info"
    /\ Len(fired) >= 3
    /\ Len(files) = Len(fired) - 1
    /\ \A i \in DOMAIN files : files[i].complete

\* C16: a loop iteration whose guard is false changes nothing: no call to
\* the node, no file, and prev_height, prev_mempool and prev_timestamp keep
\* their values through the check and the sleep.
C16_IdleIterationChangesNothing ==
    [][((pc = "check" /\ ~ShouldTick(clock, prev_timestamp)) \/ pc = "sleep") =>
          /\ pc' \in {"check", "sleep"}
          /\ UNCHANGED <<rest_calls, files, prev_height, prev_mempool,
                         prev_timestamp, this_height, this_mempool, delta,
                         filename>>]_vars

\* an idle iteration between two ticks, with state worth preserving
C16_Witness ==
    /\ pc = "sleep"
    /\ Len(files) >= 1
    /\ prev_mempool # EmptyMempool
    /\ prev_height > 0
    /\ prev_timestamp = clock

\* C17: every file named `delta` comes after a file named `full` for the
\* same height, and the first file of a run is named `full`, whatever
\* height the node reports (height 0 included).
C17_DeltaPrecededByFull ==
    /\ files # <<>> => files[1].path.suffix = "full"
    /\ \A i \in DOMAIN files :
          files[i].path.suffix = "delta" =>
              \E j \in 1..(i - 1) :
                  /\ files[j].path.suffix = "full"
                  /\ files[j].path.height = files[i].path.height

\* C18: the height in the name of the file about to be written is the
\* height the node had when it answered get_mempool, however block arrivals
\* interleave with the two fetches of the tick.
C18_NameHeightIsSnapshotHeight ==
    pc = "save" => filename.height = snapshot_height

KeyStrings(map) == {TxidToString(k) : k \in DOMAIN map}

\* the table of the tick in progress turns the key set of its baseline into
\* the key set of the fetched snapshot
TickTelescopes ==
    pc = "save" =>
        KeyStrings(this_mempool) = ApplyTable(KeyStrings(prev_mempool), delta)

\* C19 as stated: every tick's table telescopes, and applying, from the
\* empty set, every table written since a `full` tick yields the key set of
\* prev_mempool after the last tick.
C19_TablesTelescope ==
    /\ TickTelescopes
    /\ (pc \in {"check", "sleep"} /\ replay.started) =>
          replay.all = KeyStrings(prev_mempool)

\* C19, amended: every tick's table telescopes, and applying, from the
\* empty set, the tables of a run of completed ticks that starts with a
\* `full` tick and contains no other `full` tick yields the key set of
\* prev_mempool after the last tick of the run.
C19_TablesTelescopeWithinHeight ==
    /\ TickTelescopes
    /\ (pc \in {"check", "sleep"} /\ replay.started) =>
          replay.run = KeyStrings(prev_mempool)

\* a `full` table followed by two `delta` tables, with a transaction that
\* entered and one that left the pool since the `full` one
C19_Witness ==
    /\ pc = "check"
    /\ replay.started
    /\ Len(files) >= 3
    /\ files[Len(files) - 2].path.suffix = "full"
    /\ files[Len(files) - 1].path.suffix = "delta"
    /\ files[Len(files)].path.suffix = "delta"
    /\ replay.run = KeyStrings(prev_mempool)
    /\ Cardinality(replay.run) = 1
    /\ replay.all # replay.run

====
